---- MODULE Spec2Model ----
(***************************************************************************)
(* A model of the Halite game environment's start-up sequence              *)
(* (environment/main.cpp, main) and of the toroidal map geometry           *)
(* (environment/model/Map.cpp: get_neighbors, distance, move_location).    *)
(*                                                                         *)
(* Two specifications share the variables:                                 *)
(*   Spec     main(): argument handling, bot launching, player-count       *)
(*            validation, game creation, and a second run of the program   *)
(*            on the same command line;                                    *)
(*   MapSpec  a Map of some width and height on which get_neighbors,       *)
(*            distance and move_location are called.                       *)
(***************************************************************************)
EXTENDS Integers, Sequences, FiniteSets, TLC

VARIABLES
    \* ---- hlt::Map -------------------------------------------------------
    width,          \* Map::width
    height,         \* Map::height
    location,       \* the Location passed to get_neighbors / move_location, `from` of distance
    to,             \* the `to` Location of distance
    ret,            \* the last call on the map: its name, arguments and result
    \* ---- main() ---------------------------------------------------------
    pc,                          \* position of main()
    otherArgs,                   \* otherArgs.getValue(): the unlabeled arguments as given
    overrideSwitch,              \* -o
    printConstantsSwitch,        \* --print-constants
    nPlayersArg,                 \* -n (unsigned int, default 1)
    seedArg,                     \* -s (unsigned int, default 0)
    dimensionArgs,               \* -d (pair of signed int, default {0, 0})
    unlabeledArgs,               \* std::list of the arguments not consumed yet
    mapWidth,                    \* unsigned short
    mapHeight,                   \* unsigned short
    seed,                        \* unsigned int
    n_players_for_map_creation,  \* unsigned short
    networking,                  \* Networking: the start commands of the launched bots
    names,                       \* std::vector<std::string>* names
    my_game,                     \* Halite* my_game; the object is the constructor's arguments
    ran,                         \* run_game has been called
    out,                         \* the setup error message written to std::cout, if any
    exitStatus,                  \* the process's exit status once pc = "exited"
    launch_failed,               \* a call of launch_bot has thrown
    run,                         \* 1: first execution, 2: second execution of the same command line
    firstRun                     \* what the first execution ended with

mapVars == <<width, height, location, to, ret>>

mainVars == <<pc, otherArgs, overrideSwitch, printConstantsSwitch, nPlayersArg, seedArg,
              dimensionArgs, unlabeledArgs, mapWidth, mapHeight, seed,
              n_players_for_map_creation, networking, names, my_game, ran, out,
              exitStatus, launch_failed, run, firstRun>>

vars == <<mapVars, mainVars>>

\* ---- bounds ---------------------------------------------------------------
MaxDim == 4

MaxArgs == 14

\* ---- small helpers --------------------------------------------------------
\* A pointer is the empty sequence (NULL) or the one-element sequence of its object.
NULL == <<>>

new(object) == <<object>>

Range(s) == {s[i] : i \in DOMAIN s}

abs(v) == IF v < 0 THEN -v ELSE v

min(a, b) == IF b < a THEN b ELSE a

\***************************************************************************
\* hlt::Map
\***************************************************************************
Direction == {"North", "South", "East", "West"}

InBounds(l) == l[1] \in 0..(width - 1) /\ l[2] \in 0..(height - 1)

Locations == (0..(width - 1)) \X (0..(height - 1))

get_neighbors_wrongdim(l) ==
    <<<<(l[1] + 1) % height, l[2]>>,
      <<(l[1] - 1 + width) % width, l[2]>>,
      <<l[1], (l[2] + 1) % height>>,
      <<l[1], (l[2] - 1 + height) % height>>>>

get_neighbors(l) ==
    <<<<(l[1] + 1) % width, l[2]>>,
      <<(l[1] - 1 + width) % width, l[2]>>,
      <<l[1], (l[2] + 1) % height>>,
      <<l[1], (l[2] - 1 + height) % height>>>>

distance_flat(from, tw) ==
    abs(from[1] - tw[1]) + abs(from[2] - tw[2])

distance_xonly(from, tw) ==
    LET x_dist == abs(from[1] - tw[1])
        y_dist == abs(from[2] - tw[2])
    IN  min(x_dist, width - x_dist) + min(y_dist, width - y_dist)

distance(from, tw) ==
    LET x_dist == abs(from[1] - tw[1])
        y_dist == abs(from[2] - tw[2])
    IN  min(x_dist, width - x_dist) + min(y_dist, height - y_dist)

move_location_northsouth(l, d) ==
    CASE d = "North" -> <<l[1], (l[2] + 1) % height>>
      [] d = "South" -> <<l[1], (l[2] + 1) % height>>
      [] d = "East"  -> <<(l[1] + 1) % width, l[2]>>
      [] d = "West"  -> <<(l[1] + width - 1) % width, l[2]>>

move_location_nowrap(l, d) ==
    CASE d = "North" -> <<l[1], (l[2] + height - 1) % height>>
      [] d = "South" -> <<l[1], (l[2] + 1) % height>>
      [] d = "East"  -> <<l[1] + 1, l[2]>>
      [] d = "West"  -> <<(l[1] + width - 1) % width, l[2]>>

move_location(l, d) ==
    CASE d = "North" -> <<l[1], (l[2] + height - 1) % height>>
      [] d = "South" -> <<l[1], (l[2] + 1) % height>>
      [] d = "East"  -> <<(l[1] + 1) % width, l[2]>>
      [] d = "West"  -> <<(l[1] + width - 1) % width, l[2]>>

NoCall == [op |-> "none"]

MapInit ==
    /\ width \in 1..MaxDim
    /\ height \in 1..MaxDim
    /\ location \in (0..(width - 1)) \X (0..(height - 1))
    /\ to \in (0..(width - 1)) \X (0..(height - 1))
    /\ ret = NoCall

MapIdle ==
    /\ width = 1
    /\ height = 1
    /\ location = <<0, 0>>
    /\ to = <<0, 0>>
    /\ ret = NoCall

CallGetNeighbors ==
    /\ ret' = [op |-> "get_neighbors", location |-> location, val |-> get_neighbors(location)]
    /\ UNCHANGED <<width, height, location, to, mainVars>>

CallDistance ==
    /\ ret' = [op |-> "distance", from |-> location, to |-> to, val |-> distance(location, to)]
    /\ UNCHANGED <<width, height, location, to, mainVars>>

CallMoveLocation ==
    \E d \in Direction :
        /\ location' = move_location(location, d)
        /\ ret' = [op |-> "move_location", location |-> location, direction |-> d,
                   val |-> move_location(location, d)]
        /\ UNCHANGED <<width, height, to, mainVars>>

\***************************************************************************
\* main()
\***************************************************************************
\* unsigned short holds a value modulo 2^16
USHORT == 2 ^ 16

\* the values tried for -n: none accepted, the default, small counts, the largest
\* accepted count, the first rejected one, and one that does not fit an unsigned short
NPlayersValues == {0, 1, 2, 6, 7, USHORT + 1}

\* the values tried for -s; 0 is the default (no seed given)
SeedValues == {0, 1, 2}

\* readings of the system clock in microseconds, already reduced modulo 4294967295
ClockValues == {3, 4}

\* the values tried for -d; {0, 0} is the default (no dimensions given)
DimensionValues == {<<0, 0>>, <<0, 5>>, <<4, 3>>}

mapSizeChoices == <<100, 125, 128, 150, 175, 200, 225, 250, 256>>

\* std::mt19937 prg(seed); size_dist(prg): an index into mapSizeChoices that is a
\* fixed function of the seed (the generator itself is the standard library's)
size_dist(s) == s % Len(mapSizeChoices)

\* the i-th unlabeled argument of the command line
Arg(i) == "arg" \o ToString(i)

CommandLine(k) == [i \in 1..k |-> Arg(i)]

seed_from_clock(s, clock) == clock

seed_of(s, clock) == IF s # 0 THEN s ELSE clock

override_count_small(n) == n < 4

override_count_invalid(n) == n < 4 \/ n % 2 # 0

\* Networking::player_count()
player_count == Len(networking)

\* Networking::launch_bot(command) when the process starts
launch_bot(command) == Append(networking, command)

exit(status) ==
    /\ pc' = "exited"
    /\ exitStatus' = status

ProgramStart ==
    /\ pc = "parsed"
    /\ unlabeledArgs = <<>>
    /\ mapWidth = 0
    /\ mapHeight = 0
    /\ seed = 0
    /\ n_players_for_map_creation = 0
    /\ networking = <<>>
    /\ names = NULL
    /\ my_game = NULL
    /\ ran = FALSE
    /\ out = ""
    /\ exitStatus = 0
    /\ launch_failed = FALSE

MainInit ==
    /\ otherArgs \in {CommandLine(k) : k \in 0..MaxArgs}
    /\ overrideSwitch \in BOOLEAN
    /\ printConstantsSwitch \in BOOLEAN
    /\ nPlayersArg \in NPlayersValues
    /\ seedArg \in SeedValues
    /\ dimensionArgs \in DimensionValues
    /\ ProgramStart
    /\ run = 1
    /\ firstRun = NULL

MainIdle ==
    /\ otherArgs = <<>>
    /\ overrideSwitch = FALSE
    /\ printConstantsSwitch = FALSE
    /\ nPlayersArg = 1
    /\ seedArg = 0
    /\ dimensionArgs = <<0, 0>>
    /\ ProgramStart
    /\ run = 1
    /\ firstRun = NULL

inputs == <<otherArgs, overrideSwitch, printConstantsSwitch, nPlayersArg, seedArg,
            dimensionArgs, run, firstRun>>

\* lines 121-135: the values of the arguments
ReadArgs ==
    /\ pc = "parsed"
    /\ mapWidth' = dimensionArgs[1] % USHORT
    /\ mapHeight' = dimensionArgs[2] % USHORT
    /\ \E clock \in ClockValues : seed' = seed_of(seedArg, clock)
    /\ n_players_for_map_creation' = nPlayersArg % USHORT
    /\ pc' = "constants"
    /\ UNCHANGED <<inputs, unlabeledArgs, networking, names, my_game, ran, out, exitStatus,
                   launch_failed, mapVars>>

\* lines 137-178: --print-constants returns 0; the constants file only changes GameConstants
PrintConstants ==
    /\ pc = "constants"
    /\ IF printConstantsSwitch
         THEN exit(0)
         ELSE pc' = "size" /\ UNCHANGED exitStatus
    /\ UNCHANGED <<inputs, unlabeledArgs, mapWidth, mapHeight, seed,
                   n_players_for_map_creation, networking, names, my_game, ran, out,
                   launch_failed, mapVars>>

\* lines 180-195: the list of unlabeled arguments, and the map size when none was given
ChooseMapSize ==
    /\ pc = "size"
    /\ unlabeledArgs' = otherArgs
    /\ IF mapWidth = 0 /\ mapHeight = 0
         THEN /\ mapWidth' = mapSizeChoices[size_dist(seed) + 1]
              /\ mapHeight' = mapSizeChoices[size_dist(seed) + 1]
         ELSE UNCHANGED <<mapWidth, mapHeight>>
    /\ pc' = "launch"
    /\ UNCHANGED <<inputs, seed, n_players_for_map_creation, networking, names, my_game,
                   ran, out, exitStatus, launch_failed, mapVars>>

\* lines 197-205 and 222-229: the number of unlabeled arguments
CheckArgs ==
    /\ pc = "launch"
    /\ IF overrideSwitch
         THEN IF override_count_invalid(Len(unlabeledArgs))
                THEN /\ out' = "Invalid number of player parameters with override switch enabled."
                     /\ exit(1)
                     /\ UNCHANGED names
                ELSE /\ names' = new(<<>>)
                     /\ pc' = "launch_override"
                     /\ UNCHANGED <<out, exitStatus>>
         ELSE IF Len(unlabeledArgs) < 1
                THEN /\ out' = "Please provide the launch command string for at least one bot."
                     /\ exit(1)
                     /\ UNCHANGED names
                ELSE /\ pc' = "launch_default"
                     /\ UNCHANGED <<out, exitStatus, names>>
    /\ UNCHANGED <<inputs, unlabeledArgs, mapWidth, mapHeight, seed,
                   n_players_for_map_creation, networking, my_game, ran, launch_failed,
                   mapVars>>

\* lines 213-220
override_catch ==
    /\ out' = "Invalid player parameters with override switch enabled."
    /\ names' = NULL
    /\ exit(1)

default_catch_continues ==
    /\ out' = "One or more of your bot launch command strings failed."
    /\ pc' = "players"
    /\ UNCHANGED exitStatus

\* lines 236-241
default_catch ==
    /\ out' = "One or more of your bot launch command strings failed."
    /\ exit(1)

\* Reading the front of an empty std::list is undefined; it does not happen while the
\* argument count is even, and is given an arbitrary string here.
front(list) == IF list = <<>> THEN "" ELSE Head(list)

pop_front(list) == IF list = <<>> THEN <<>> ELSE Tail(list)

\* lines 206-220: one iteration of the override loop, or its end
LaunchOverride ==
    /\ pc = "launch_override"
    /\ IF unlabeledArgs = <<>>
         THEN /\ pc' = "players"
              /\ UNCHANGED <<unlabeledArgs, networking, names, out, exitStatus, launch_failed>>
         ELSE \/ /\ networking' = launch_bot(front(unlabeledArgs))
                 /\ names' = new(Append(names[1], front(pop_front(unlabeledArgs))))
                 /\ unlabeledArgs' = pop_front(pop_front(unlabeledArgs))
                 /\ UNCHANGED <<pc, out, exitStatus, launch_failed>>
              \/ /\ launch_failed' = TRUE
                 /\ override_catch
                 /\ UNCHANGED <<unlabeledArgs, networking>>
    /\ UNCHANGED <<inputs, mapWidth, mapHeight, seed, n_players_for_map_creation, my_game,
                   ran, mapVars>>

\* lines 230-241: one iteration of the default loop, or its end
LaunchDefault ==
    /\ pc = "launch_default"
    /\ IF unlabeledArgs = <<>>
         THEN /\ pc' = "players"
              /\ UNCHANGED <<unlabeledArgs, networking, out, exitStatus, launch_failed>>
         ELSE \/ /\ networking' = launch_bot(front(unlabeledArgs))
                 /\ unlabeledArgs' = pop_front(unlabeledArgs)
                 /\ UNCHANGED <<pc, out, exitStatus, launch_failed>>
              \/ /\ launch_failed' = TRUE
                 /\ default_catch
                 /\ UNCHANGED <<unlabeledArgs, networking>>
    /\ UNCHANGED <<inputs, names, mapWidth, mapHeight, seed, n_players_for_map_creation,
                   my_game, ran, mapVars>>

setup_error_ignored(message) ==
    /\ out' = message
    /\ pc' = "create"
    /\ UNCHANGED exitStatus

\* lines 245-248 and 255-258: the message and exit(1)
setup_error(message) ==
    /\ out' = message
    /\ exit(1)

NPlayersMessage == "Only single-player mode enables specified n-player maps."

MapPlayersMessage == "A map can only accommodate between 1 and 6 players."

\* lines 244-259: the player count the map is created for
CheckPlayers ==
    /\ pc = "players"
    /\ IF player_count > 1 /\ n_players_for_map_creation # 1
         THEN /\ setup_error(NPlayersMessage)
              /\ UNCHANGED n_players_for_map_creation
         ELSE LET n == IF player_count > 1 THEN player_count % USHORT
                                           ELSE n_players_for_map_creation
              IN  /\ n_players_for_map_creation' = n
                  /\ IF n > 6 \/ n < 1
                       THEN setup_error(MapPlayersMessage)
                       ELSE pc' = "create" /\ UNCHANGED <<out, exitStatus>>
    /\ UNCHANGED <<inputs, unlabeledArgs, mapWidth, mapHeight, seed, networking, names,
                   my_game, ran, launch_failed, mapVars>>

\* lines 264-269
CreateGame ==
    /\ pc = "create"
    /\ my_game' = new([width |-> mapWidth, height |-> mapHeight, seed |-> seed,
                       n_players |-> n_players_for_map_creation,
                       networking |-> networking])
    /\ pc' = "run"
    /\ UNCHANGED <<inputs, unlabeledArgs, mapWidth, mapHeight, seed,
                   n_players_for_map_creation, networking, names, ran, out, exitStatus,
                   launch_failed, mapVars>>

\* lines 271-281
RunGame ==
    /\ pc = "run"
    /\ ran' = TRUE
    /\ pc' = "finish"
    /\ UNCHANGED <<inputs, unlabeledArgs, mapWidth, mapHeight, seed,
                   n_players_for_map_creation, networking, names, my_game, out, exitStatus,
                   launch_failed, mapVars>>

\* lines 282-305: the results are printed and main returns 0
Finish ==
    /\ pc = "finish"
    /\ exit(0)
    /\ UNCHANGED <<inputs, unlabeledArgs, mapWidth, mapHeight, seed,
                   n_players_for_map_creation, networking, names, my_game, ran, out,
                   launch_failed, mapVars>>

\* the same command line is executed a second time, independently of the first
Rerun ==
    /\ pc = "exited"
    /\ run = 1
    /\ run' = 2
    /\ firstRun' = new([my_game |-> my_game, exitStatus |-> exitStatus, out |-> out])
    /\ pc' = "parsed"
    /\ unlabeledArgs' = <<>>
    /\ mapWidth' = 0
    /\ mapHeight' = 0
    /\ seed' = 0
    /\ n_players_for_map_creation' = 0
    /\ networking' = <<>>
    /\ names' = NULL
    /\ my_game' = NULL
    /\ ran' = FALSE
    /\ out' = ""
    /\ exitStatus' = 0
    /\ launch_failed' = FALSE
    /\ UNCHANGED <<otherArgs, overrideSwitch, printConstantsSwitch, nPlayersArg, seedArg,
                   dimensionArgs, mapVars>>

MainNext ==
    \/ ReadArgs
    \/ PrintConstants
    \/ ChooseMapSize
    \/ CheckArgs
    \/ LaunchOverride
    \/ LaunchDefault
    \/ CheckPlayers
    \/ CreateGame
    \/ RunGame
    \/ Finish
    \/ Rerun

\***************************************************************************
\* the specifications
\***************************************************************************
Init == MainInit /\ MapIdle

Next == MainNext

Spec == Init /\ [][Next]_vars

MapSpecInit == MapInit /\ MainIdle

MapSpecNext ==
    \/ CallGetNeighbors
    \/ CallDistance
    \/ CallMoveLocation

MapSpec == MapSpecInit /\ [][MapSpecNext]_vars

\***************************************************************************
\* Properties of hlt::Map (checked under MapSpec)
\***************************************************************************
\* the locations reached from `frontier` in k more move_location steps, until tw is
\* among them; width + height + 1 when tw is not reached within width + height steps
RECURSIVE StepsTo(_, _, _)
StepsTo(frontier, tw, k) ==
    IF tw \in frontier THEN k
    ELSE IF k > width + height THEN width + height + 1
    ELSE StepsTo(frontier \cup {move_location(l, d) : l \in frontier, d \in Direction},
                 tw, k + 1)

AllAtDistanceOne(l) ==
    LET n == get_neighbors(l)
    IN  /\ Len(n) = 4
        /\ \A i \in DOMAIN n : distance(l, n[i]) = 1

\* C1 as stated: on a map of any width >= 1 and height >= 1, get_neighbors(L) has
\* exactly 4 entries and each is at distance 1 from L, for every in-bounds L.
C1_AnySize ==
    \A l \in Locations : AllAtDistanceOne(l)

\* C1 amended: on a map of width >= 2 and height >= 2, get_neighbors(L) has exactly 4
\* entries and each is at distance 1 from L, for every in-bounds L.
C1_NeighborsAtDistanceOne ==
    (width >= 2 /\ height >= 2) => \A l \in Locations : AllAtDistanceOne(l)

C1_Witness ==
    /\ ret.op = "get_neighbors"
    /\ width >= 3 /\ height >= 2
    /\ ret.location = <<0, height - 1>>
    /\ ret.val[2] = <<width - 1, height - 1>>
    /\ ret.val[3] = <<0, 0>>
    /\ \A i \in 1..4 : distance(ret.location, ret.val[i]) = 1

\* C2: for every in-bounds L, moving L once in each of the four directions gives
\* exactly the set of locations get_neighbors(L) returns.
C2_MovesAreNeighbors ==
    \A l \in Locations :
        {move_location(l, d) : d \in Direction} = Range(get_neighbors(l))

C2_Witness ==
    /\ ret.op = "move_location"
    /\ width >= 3 /\ height >= 3
    /\ ret.location[1] = 0
    /\ ret.direction = "West"
    /\ ret.val = <<width - 1, ret.location[2]>>
    /\ ret.val \in Range(get_neighbors(ret.location))
    /\ Cardinality(Range(get_neighbors(ret.location))) = 4

\* C3: distance is symmetric, zero from a location to itself, and between 0 and
\* floor(width / 2) + floor(height / 2), for all in-bounds A and B.
C3_DistanceSymmetricBounded ==
    \A a \in Locations, b \in Locations :
        /\ distance(a, b) = distance(b, a)
        /\ distance(a, a) = 0
        /\ 0 <= distance(a, b)
        /\ distance(a, b) <= (width \div 2) + (height \div 2)

C3_Witness ==
    /\ ret.op = "distance"
    /\ width >= 3 /\ height >= 3
    /\ ret.val = (width \div 2) + (height \div 2)
    /\ ret.val = distance(ret.to, ret.from)
    /\ abs(ret.from[1] - ret.to[1]) > width \div 2

\* C4: move_location(L, d) changes y by +1 or -1 modulo height for North and South and
\* leaves x alone, changes x by +1 or -1 modulo width for East and West and leaves y
\* alone, and its result is in bounds, for every in-bounds L and direction d.
C4_MoveOneCoordinate ==
    \A l \in Locations, d \in Direction :
        LET m == move_location(l, d)
        IN  /\ InBounds(m)
            /\ d \in {"North", "South"} =>
                   /\ m[1] = l[1]
                   /\ m[2] \in {(l[2] + 1) % height, (l[2] - 1) % height}
            /\ d \in {"East", "West"} =>
                   /\ m[2] = l[2]
                   /\ m[1] \in {(l[1] + 1) % width, (l[1] - 1) % width}

C4_Witness ==
    /\ ret.op = "move_location"
    /\ width >= 3 /\ height >= 3
    /\ ret.direction = "East"
    /\ ret.location[1] = width - 1
    /\ ret.val = <<0, ret.location[2]>>
    /\ location = ret.val

\* C10: distance(A, B) is the least number of move_location steps that take A to B.
C10_DistanceIsShortestPath ==
    distance(location, to) = StepsTo({location}, to, 0)

C10_Witness ==
    /\ ret.op = "distance"
    /\ ret.from = location /\ ret.to = to
    /\ ret.val >= 2
    /\ ret.val = StepsTo({location}, to, 0)
    /\ abs(location[1] - to[1]) > width - abs(location[1] - to[1])
    /\ abs(location[2] - to[2]) > height - abs(location[2] - to[2])

\***************************************************************************
\* Properties of main() (checked under Spec)
\***************************************************************************
GameCreated == my_game # NULL

SetupErrorMessages == {NPlayersMessage, MapPlayersMessage}

\* main() has passed both launch loops
Launched ==
    \/ pc \in {"players", "create", "run", "finish"}
    \/ pc = "exited" /\ (out \in SetupErrorMessages \/ GameCreated)

\* C5: once a call of launch_bot has failed, in default or in override mode and after
\* any number of successful launches, the program has exited with status 1, the game
\* is not created and run_game is not called.
C5_LaunchFailureIsFatal ==
    launch_failed =>
        /\ pc = "exited"
        /\ exitStatus = 1
        /\ ~GameCreated
        /\ ~ran

C5_Witness ==
    /\ launch_failed
    /\ ~overrideSwitch
    /\ player_count >= 2
    /\ unlabeledArgs # <<>>
    /\ pc = "exited"
    /\ exitStatus = 1

\* C6 as stated: when the program has ended with the player-count error, no bot
\* process has been launched.
C6_NoLaunchBeforeSetupError ==
    (pc = "exited" /\ out \in SetupErrorMessages) => player_count = 0

\* C6 amended: the player-count error is fatal before the game is created but after
\* the launches: when it is reported the program has exited with status 1, every
\* start command has been launched (at least one), the game is not created and
\* run_game is not called.
C6_SetupErrorBeforeGame ==
    out \in SetupErrorMessages =>
        /\ pc = "exited"
        /\ exitStatus = 1
        /\ unlabeledArgs = <<>>
        /\ player_count >= 1
        /\ ~GameCreated
        /\ ~ran

C6_Witness ==
    /\ pc = "exited"
    /\ out = NPlayersMessage
    /\ player_count = 2
    /\ nPlayersArg = 2
    /\ exitStatus = 1
    /\ ~GameCreated

BothCreated ==
    /\ run = 2
    /\ GameCreated
    /\ firstRun[1].my_game # NULL

SameGameInputs ==
    LET first == firstRun[1].my_game[1]
        second == my_game[1]
    IN  /\ second.seed = first.seed
        /\ second.width = first.width
        /\ second.height = first.height
        /\ second.n_players = first.n_players

\* C8 as stated: for every seed value, 0 included, and no dimensions given, two
\* executions of the same command line pass the same seed, map width, map height and
\* player count to the game.
C8_SameInputsAnySeed ==
    (BothCreated /\ dimensionArgs = <<0, 0>>) => SameGameInputs

\* C8 amended: for every seed value other than 0 and no dimensions given, two
\* executions of the same command line pass the same seed, map width, map height and
\* player count to the game.
C8_SameInputsGivenSeed ==
    (BothCreated /\ dimensionArgs = <<0, 0>> /\ seedArg # 0) => SameGameInputs

C8_Witness ==
    /\ BothCreated
    /\ dimensionArgs = <<0, 0>>
    /\ seedArg = 2
    /\ my_game[1].seed = 2
    /\ my_game[1].width = mapSizeChoices[3]
    /\ my_game[1].n_players = 3
    /\ SameGameInputs

\* C9: when the game is created the player count for map creation is within 1..6 and,
\* with more than one bot launched, equal to the number of bots; an n-players value
\* other than the default 1 is accepted only when exactly one bot was launched.
C9_PlayerCountForMap ==
    GameCreated =>
        /\ my_game[1].n_players \in 1..6
        /\ player_count > 1 => my_game[1].n_players = player_count
        /\ nPlayersArg # 1 => player_count = 1
====
